---------------------------- MODULE Spec2Model ----------------------------
(***************************************************************************)
(* Model of the monetz-api user service: the endpoints Auth, ValidateToken *)
(* and CreateUser (src/user/api.go), the user Service over the users table *)
(* (src/user/service.go) and the AuthHandler (src/authentication/          *)
(* handler.go).  Requests run concurrently; a request is suspended only at *)
(* a database round trip and at the publish of an AuthEvent.               *)
(*                                                                         *)
(* The package encore.app/user/security (NewToken, ParseToken, GetClaims)  *)
(* and the migrations of the users table are part of the repository but    *)
(* not of src/; they are modelled from the specification.                  *)
(***************************************************************************)
EXTENDS Integers, Sequences, FiniteSets, TLC

VARIABLES users, authEvents, now, calls, last

vars == <<users, authEvents, now, calls, last>>

-----------------------------------------------------------------------------
(* Bounds *)

\* Number of Auth / CreateUser requests of one behaviour.
MaxCalls == 2

\* The clock runs from 0 to MaxTime.
MaxTime == 2

Calls == 1..MaxCalls

\* Longest email of the specification that draws emails character by character.
MaxEmailLen == 6

-----------------------------------------------------------------------------
(* Inputs *)

\* Strings that are matched character by character are sequences of
\* one-character strings.
EmailABCo == <<"a", "@", "b", ".", "c", "o">>
EmailUXCom == <<"u", "@", "x", ".", "c", "o", "m">>
EmailAbc == <<"a", "b", "c">>
EmailAB == <<"a", "@", "b">>
EmailAtBCom == <<"@", "b", ".", "c", "o", "m">>

Emails == {EmailABCo, EmailAB}

\* A letter, a digit, a character of the local part only, the separators and
\* a character no part of an email may hold.
EmailAlphabet == {"a", "9", "_", "@", ".", " "}

\* Every string over EmailAlphabet of at most MaxEmailLen characters, and the
\* emails above.
EmailStrings ==
    UNION {[1..n -> EmailAlphabet] : n \in 0..MaxEmailLen}
        \cup {EmailABCo, EmailUXCom, EmailAbc, EmailAB, EmailAtBCom}

Passwords == {"pw", "other"}

FirstNames == {"A"}

LastNames == {"B"}

-----------------------------------------------------------------------------
(* isValidEmail: ^[a-zA-Z0-9._%+-]+@[a-zA-Z0-9.-]+\.[a-zA-Z]{2,}$ *)

Letter == {"a", "b", "c", "m", "o", "u", "x", "A", "Z"}

Digit == {"0", "9"}

LocalChar == Letter \cup Digit \cup {".", "_", "%", "+", "-"}

DomainChar == Letter \cup Digit \cup {".", "-"}

AllIn(s, lo, hi, class) == \A k \in lo..hi : s[k] \in class

\* Mutant: the top-level label may be one letter, {1,} for {2,}.
isValidEmailShortLabel(email) ==
    \E i \in 1..Len(email) : \E j \in 1..Len(email) :
        /\ 1 < i
        /\ i + 1 < j
        /\ j + 1 =< Len(email)
        /\ AllIn(email, 1, i - 1, LocalChar)
        /\ email[i] = "@"
        /\ AllIn(email, i + 1, j - 1, DomainChar)
        /\ email[j] = "."
        /\ AllIn(email, j + 1, Len(email), Letter)

isValidEmail(email) ==
    \E i \in 1..Len(email) : \E j \in 1..Len(email) :
        /\ 1 < i
        /\ i + 1 < j
        /\ j + 2 =< Len(email)
        /\ AllIn(email, 1, i - 1, LocalChar)
        /\ email[i] = "@"
        /\ AllIn(email, i + 1, j - 1, DomainChar)
        /\ email[j] = "."
        /\ AllIn(email, j + 1, Len(email), Letter)

-----------------------------------------------------------------------------
(* Password hasher: hex(sha1(password)), a deterministic digest that never *)
(* equals its input and that separates the passwords of the model.         *)

Sha1Hex(password) == <<"sha1", password>>

-----------------------------------------------------------------------------
(* The users table.  A row is [id, email, password, first_name, last_name]; *)
(* password holds the digest.                                               *)

\* select id, email, password, first_name, last_name from users where email = $1
SelectUserByEmail(email) == {u \in users : u.email = email}

\* select exists(select 1 from users where email = $1)
SelectExists(email) == \E u \in users : u.email = email

\* Mutant: the table is unique on its key only.
UniqueViolationOnID(row) == \E u \in users : u.id = row.id

\* The uniqueness constraint on users.email, checked by the store as part
\* of the insert.
UniqueViolation(row) == \E u \in users : u.email = row.email

\* uuid.New(): an identifier no row has yet.
NewUserID == Cardinality(users) + 1

\* Mutant: the insert replaces the stored row of the same email.
InsertUserReplacing(row) ==
    [err |-> "none", table |-> {u \in users : u.email # row.email} \cup {row}]

\* insert into users (...) values (...): "ok" and the table with the row
\* added, or "conflict" and the table as it was.
InsertUser(row) ==
    IF UniqueViolation(row)
    THEN [err |-> "conflict", table |-> users]
    ELSE [err |-> "none", table |-> users \cup {row}]

-----------------------------------------------------------------------------
(* Tokens (package security).  A token string is empty, text that is no    *)
(* token, or a signed set of claims; the claim "email" is a string, absent *)
(* or of another type.                                                     *)

SigningKey == "key"

\* Lifetime of a token in clock ticks.
TokenTTL == 1

NoToken ==
    [form |-> "empty", sig |-> "", exp |-> 0, emailType |-> "absent", email |-> <<>>]

Garbage ==
    [form |-> "garbage", sig |-> "", exp |-> 0, emailType |-> "absent", email |-> <<>>]

\* security.NewToken(email) at time t
NewToken(email, t) ==
    [form |-> "jwt", sig |-> SigningKey, exp |-> t + TokenTTL,
     emailType |-> "string", email |-> email]

\* security.ParseToken(token) at time t: "none", or why the token is refused.
ParseToken(tok, t) ==
    IF tok.form # "jwt" THEN "malformed"
    ELSE IF tok.sig # SigningKey THEN "signature"
    ELSE IF t > tok.exp THEN "expired"
    ELSE "none"

\* security.GetClaims(t): the claims of a parsed token.
GetClaims(tok) ==
    IF tok.form = "jwt" /\ tok.sig = SigningKey
    THEN [err |-> "none", emailType |-> tok.emailType, email |-> tok.email]
    ELSE [err |-> "invalid", emailType |-> "absent", email |-> <<>>]

\* Tokens a client may send that no call of the service issued.
ForeignTokens ==
    {NoToken, Garbage,
     [form |-> "jwt", sig |-> "forged", exp |-> MaxTime,
      emailType |-> "string", email |-> EmailABCo],
     [form |-> "jwt", sig |-> SigningKey, exp |-> MaxTime,
      emailType |-> "absent", email |-> <<>>],
     [form |-> "jwt", sig |-> SigningKey, exp |-> MaxTime,
      emailType |-> "number", email |-> <<>>]}

-----------------------------------------------------------------------------
(* Responses.  An endpoint returns a response or an error of errs: a code, *)
(* a message and the metadata of the error builder.                        *)

\* eb.Code(code).Msg(msg).Err() of Auth and CreateUser
Err(code, msg, key, email) ==
    [code |-> code, msg |-> msg, meta |-> <<key, email>>, token |-> NoToken]

\* &AuthResponse{Token: token}, &CreateUserResponse{Token: token}
TokenResponse(token) ==
    [code |-> "ok", msg |-> "", meta |-> <<"", <<>>>>, token |-> token]

NoResponse ==
    [code |-> "none", msg |-> "", meta |-> <<"", <<>>>>, token |-> NoToken]

NoParams == [Email |-> <<>>, Password |-> "", FirstName |-> "", LastName |-> ""]

\* A request slot that no request has taken yet.
IdleCall ==
    [op |-> "idle", pc |-> "idle", p |-> NoParams, token |-> NoToken,
     resp |-> NoResponse, cause |-> "none"]

\* The request returns resp; cause records which step decided it.
Return(call, resp, cause) ==
    [call EXCEPT !.pc = "done", !.token = NoToken, !.resp = resp, !.cause = cause]

NoLast ==
    [op |-> "none", token |-> NoToken, verified |-> FALSE,
     vcode |-> "none", vmsg |-> "", email |-> <<>>,
     hcode |-> "none", hmsg |-> "", uid |-> ""]

Init ==
    /\ users = {}
    /\ authEvents = <<>>
    /\ now = 0
    /\ calls = [c \in Calls |-> IdleCall]
    /\ last = NoLast

\* Requests take the slots in order.
Free(c) ==
    /\ last = NoLast
    /\ calls[c].op = "idle"
    /\ \A d \in Calls : d < c => calls[d].op # "idle"

-----------------------------------------------------------------------------
(* Service (src/user/service.go) *)

\* Mutant: the comparison of the digests is inverted.
ValidatePasswordInverted(u, password) ==
    IF Sha1Hex(password) = u.password THEN "invalid password" ELSE "none"

\* Service.ValidatePassword(u, password): "none" or the error.
ValidatePassword(u, password) ==
    IF Sha1Hex(password) # u.password THEN "invalid password" ELSE "none"

\* Mutant: an email of no stored user passes.
ValidateUserUnknownPasses(email, password) ==
    IF SelectUserByEmail(email) = {} THEN "none"
    ELSE IF \E u \in SelectUserByEmail(email) : ValidatePassword(u, password) = "none"
         THEN "none"
         ELSE "mismatch"

\* Service.ValidateUser(email, password) when the query runs without a store
\* error: "none", or which check failed.
ValidateUser(email, password) ==
    IF SelectUserByEmail(email) = {} THEN "notfound"
    ELSE IF \E u \in SelectUserByEmail(email) : ValidatePassword(u, password) = "none"
         THEN "none"
         ELSE "mismatch"

\* The row Service.CreateUser inserts.
NewUserRow(email, password, firstName, lastName) ==
    [id |-> NewUserID, email |-> email, password |-> Sha1Hex(password),
     first_name |-> firstName, last_name |-> lastName]

\* Service.CreateUser(email, password, firstName, lastName): the outcome of
\* the insert.
ServiceCreateUser(email, password, firstName, lastName) ==
    InsertUser(NewUserRow(email, password, firstName, lastName))

\* Service.UserExists(email)
UserExists(email) == SelectExists(email)

-----------------------------------------------------------------------------
(* The AuthEvents topic *)

\* Mutant: the event is published twice.
PublishTwice(c, email) ==
    Append(Append(authEvents, [by |-> c, UserEmail |-> email]),
           [by |-> c, UserEmail |-> email])

\* AuthEvents.Publish(ctx, &AuthEvent{UserEmail: email}) by request c
Publish(c, email) == Append(authEvents, [by |-> c, UserEmail |-> email])

-----------------------------------------------------------------------------
(* API.Auth (src/user/api.go) *)

\* Mutant: the message tells an unknown email from a wrong password.
AuthInvalidCredentialsByCause(email, err) ==
    Err("unauthenticated",
        IF err = "notfound" THEN "unknown email" ELSE "invalid credentials",
        "auth", email)

\* The error Auth returns when Service.ValidateUser fails with err.
AuthInvalidCredentials(email, err) ==
    Err("unauthenticated", "invalid credentials", "auth", email)

\* The error Auth and CreateUser return when security.NewToken fails.
NewTokenError(key, email) == Err("internal", "internal error", key, email)

\* err := a.Service.ValidateUser(ctx, p.Email, p.Password), and on success
\* response.Token, err = security.NewToken(p.Email)
AuthValidateUser(c) ==
    /\ Free(c)
    /\ \E email \in Emails, password \in Passwords, storeOk \in BOOLEAN,
          signOk \in BOOLEAN :
        LET p == [Email |-> email, Password |-> password,
                  FirstName |-> "", LastName |-> ""]
            call == [IdleCall EXCEPT !.op = "Auth", !.p = p]
            err == IF storeOk THEN ValidateUser(email, password) ELSE "store"
        IN  calls' = [calls EXCEPT ![c] =
                IF err # "none"
                THEN Return(call, AuthInvalidCredentials(email, err), err)
                ELSE IF ~signOk
                THEN Return(call, NewTokenError("auth", email), "sign")
                ELSE [call EXCEPT !.pc = "publish", !.token = NewToken(email, now)]]
    /\ UNCHANGED <<users, authEvents, now, last>>

\* Mutant: the publish is best effort, and the token is returned all the same.
AuthPublishIgnored(call) == TokenResponse(call.token)

\* The error Auth returns when AuthEvents.Publish fails.
AuthPublishError(call) == Err("internal", "internal error", "auth", call.p.Email)

\* _, err = AuthEvents.Publish(ctx, &AuthEvent{UserEmail: p.Email})
AuthPublish(c) ==
    /\ calls[c].op = "Auth"
    /\ calls[c].pc = "publish"
    /\ last = NoLast
    /\ \E publishOk \in BOOLEAN :
        IF publishOk
        THEN /\ authEvents' = Publish(c, calls[c].p.Email)
             /\ calls' = [calls EXCEPT ![c] =
                    [@ EXCEPT !.pc = "return"]]
        ELSE /\ authEvents' = authEvents
             /\ calls' = [calls EXCEPT ![c] =
                    Return(@, AuthPublishError(@), "publish")]
    /\ UNCHANGED <<users, now, last>>

\* return &response, nil
AuthReturn(c) ==
    /\ calls[c].op = "Auth"
    /\ calls[c].pc = "return"
    /\ last = NoLast
    /\ calls' = [calls EXCEPT ![c] = Return(@, TokenResponse(@.token), "none")]
    /\ UNCHANGED <<users, authEvents, now, last>>

-----------------------------------------------------------------------------
(* API.CreateUser (src/user/api.go) *)

\* The error CreateUser returns when Service.CreateUser fails with err.
CreateUserInsertError(email, err) ==
    Err("internal", "could not create user", "create_user", email)

\* Mutant: the existence probe runs before the format of the email is looked at.
CreateUserCheckProbeFirst(call, storeOk) ==
    IF ~storeOk
    THEN Return(call, Err("internal", "internal error",
                          "create_user", call.p.Email), "store")
    ELSE IF UserExists(call.p.Email)
    THEN Return(call, Err("already_exists", "email already exists",
                          "create_user", call.p.Email), "exists")
    ELSE IF ~isValidEmail(call.p.Email)
    THEN Return(call, Err("invalid_argument", "invalid email format",
                          "create_user", call.p.Email), "format")
    ELSE [call EXCEPT !.pc = "insert"]

\* isValidEmail(p.Email), then exists, err := a.Service.UserExists(ctx, p.Email):
\* the request after these checks.
CreateUserCheck(call, storeOk) ==
    IF ~isValidEmail(call.p.Email)
    THEN Return(call, Err("invalid_argument", "invalid email format",
                          "create_user", call.p.Email), "format")
    ELSE IF ~storeOk
    THEN Return(call, Err("internal", "internal error",
                          "create_user", call.p.Email), "store")
    ELSE IF UserExists(call.p.Email)
    THEN Return(call, Err("already_exists", "email already exists",
                          "create_user", call.p.Email), "exists")
    ELSE [call EXCEPT !.pc = "insert"]

CreateUserProbe(c) ==
    /\ Free(c)
    /\ \E email \in Emails, password \in Passwords,
          firstName \in FirstNames, lastName \in LastNames, storeOk \in BOOLEAN :
        LET p == [Email |-> email, Password |-> password,
                  FirstName |-> firstName, LastName |-> lastName]
            call == [IdleCall EXCEPT !.op = "CreateUser", !.p = p]
        IN  calls' = [calls EXCEPT ![c] = CreateUserCheck(call, storeOk)]
    /\ UNCHANGED <<users, authEvents, now, last>>

\* err = a.Service.CreateUser(ctx, p.Email, p.Password, p.FirstName, p.LastName),
\* and on success response.Token, err = security.NewToken(p.Email)
CreateUserInsert(c) ==
    /\ calls[c].op = "CreateUser"
    /\ calls[c].pc = "insert"
    /\ last = NoLast
    /\ \E storeOk \in BOOLEAN, signOk \in BOOLEAN :
        LET p == calls[c].p
            r == ServiceCreateUser(p.Email, p.Password, p.FirstName, p.LastName)
            err == IF storeOk THEN r.err ELSE "store"
        IN  /\ users' = IF storeOk THEN r.table ELSE users
            /\ calls' = [calls EXCEPT ![c] =
                    IF err # "none"
                    THEN Return(@, CreateUserInsertError(p.Email, err), err)
                    ELSE IF ~signOk
                    THEN Return(@, NewTokenError("create_user", p.Email), "sign")
                    ELSE [@ EXCEPT !.pc = "publish",
                                   !.token = NewToken(p.Email, now)]]
    /\ UNCHANGED <<authEvents, now, last>>

\* _, err = AuthEvents.Publish(ctx, &AuthEvent{UserEmail: p.Email})
CreateUserPublish(c) ==
    /\ calls[c].op = "CreateUser"
    /\ calls[c].pc = "publish"
    /\ last = NoLast
    /\ \E publishOk \in BOOLEAN :
        IF publishOk
        THEN /\ authEvents' = Publish(c, calls[c].p.Email)
             /\ calls' = [calls EXCEPT ![c] =
                    [@ EXCEPT !.pc = "return"]]
        ELSE /\ authEvents' = authEvents
             /\ calls' = [calls EXCEPT ![c] =
                    Return(@, Err("internal", "internal error", "create_user",
                                  @.p.Email), "publish")]
    /\ UNCHANGED <<users, now, last>>

\* return &response, nil
CreateUserReturn(c) ==
    /\ calls[c].op = "CreateUser"
    /\ calls[c].pc = "return"
    /\ last = NoLast
    /\ calls' = [calls EXCEPT ![c] = Return(@, TokenResponse(@.token), "none")]
    /\ UNCHANGED <<users, authEvents, now, last>>

-----------------------------------------------------------------------------
(* API.ValidateToken (src/user/api.go) and AuthHandler                     *)
(* (src/authentication/handler.go).  Neither waits on shared state: each   *)
(* is one step.  last holds such a request and its outcome from the step   *)
(* that handles it to the step that hands the outcome to the caller; the   *)
(* two steps are taken together, as nothing the request reads can change   *)
(* in between.                                                             *)

\* Tokens a client can send: those the service returned and the foreign ones.
IssuedTokens == {calls[c].resp.token : c \in {d \in Calls : calls[d].resp.code = "ok"}}

TokenInputs == ForeignTokens \cup IssuedTokens

\* Mutant: the response is built from another claim than "email".
EmailClaimOtherKey(claims) ==
    [code |-> "panic", msg |-> "interface conversion", email |-> <<>>]

\* tData["email"].(string): the assertion panics unless the claim is a string.
EmailClaim(claims) ==
    IF claims.emailType = "string"
    THEN [code |-> "ok", msg |-> "", email |-> claims.email]
    ELSE [code |-> "panic", msg |-> "interface conversion", email |-> <<>>]

\* API.ValidateToken(&ValidateTokenParams{Token: tok}) at time t
APIValidateToken(tok, t) ==
    IF ParseToken(tok, t) # "none"
    THEN [code |-> "internal", msg |-> "internal error", email |-> <<>>]
    ELSE IF GetClaims(tok).err # "none"
    THEN [code |-> "internal", msg |-> "internal error", email |-> <<>>]
    ELSE EmailClaim(GetClaims(tok))

\* Mutant: ValidateToken announces the email as Auth and CreateUser do.
ValidateTokenPublishing ==
    /\ last = NoLast
    /\ \E tok \in TokenInputs :
        LET v == APIValidateToken(tok, now)
        IN  /\ last' = [NoLast EXCEPT !.op = "ValidateToken", !.token = tok,
                                      !.verified = TRUE, !.vcode = v.code,
                                      !.vmsg = v.msg, !.email = v.email]
            /\ authEvents' = IF v.code = "ok"
                             THEN Append(authEvents, [by |-> 0, UserEmail |-> v.email])
                             ELSE authEvents
    /\ UNCHANGED <<users, now, calls>>

ValidateToken ==
    /\ last = NoLast
    /\ \E tok \in TokenInputs :
        LET v == APIValidateToken(tok, now)
        IN  last' = [NoLast EXCEPT !.op = "ValidateToken", !.token = tok,
                                   !.verified = TRUE, !.vcode = v.code,
                                   !.vmsg = v.msg, !.email = v.email]
    /\ UNCHANGED <<users, authEvents, now, calls>>

\* uuid.New().String() of the handler: any identifier.
UIDs == {"uid-1", "uid-2"}

\* What the caller of an endpoint that panicked receives: the panic itself,
\* or the error the runtime makes of it.
PanicOutcomes == {"panic", "error"}

\* Mutant: the handler does not look for the empty token.
AuthHandlerNeverEmpty(tok) == FALSE

\* AuthHandler(ctx, tok): the empty token is refused before any call.
AuthHandlerEmpty(tok) == tok = NoToken

AuthHandler ==
    /\ last = NoLast
    /\ \E tok \in TokenInputs :
        LET v == APIValidateToken(tok, now)
            rejected == [NoLast EXCEPT !.op = "AuthHandler", !.token = tok,
                                       !.hcode = "unauthenticated",
                                       !.hmsg = "invalid token"]
            called == [rejected EXCEPT !.verified = TRUE, !.vcode = v.code,
                                       !.vmsg = v.msg, !.email = v.email]
        IN  IF AuthHandlerEmpty(tok)
            THEN last' = rejected
            ELSE IF v.code = "panic"
            THEN \E onPanic \in PanicOutcomes :
                    last' = IF onPanic = "panic"
                            THEN [called EXCEPT !.hcode = "panic", !.hmsg = v.msg]
                            ELSE called
            ELSE IF v.code # "ok"
            THEN last' = called
            ELSE \E uid \in UIDs :
                    last' = [called EXCEPT !.hcode = "ok", !.hmsg = "", !.uid = uid]
    /\ UNCHANGED <<users, authEvents, now, calls>>

\* The caller of ValidateToken or of AuthHandler receives the outcome.
Respond ==
    /\ last # NoLast
    /\ last' = NoLast
    /\ UNCHANGED <<users, authEvents, now, calls>>

-----------------------------------------------------------------------------
(* The clock *)

Tick ==
    /\ now < MaxTime
    /\ last = NoLast
    /\ now' = now + 1
    /\ UNCHANGED <<users, authEvents, calls, last>>

-----------------------------------------------------------------------------

Next ==
    \/ \E c \in Calls : AuthValidateUser(c)
    \/ \E c \in Calls : AuthPublish(c)
    \/ \E c \in Calls : AuthReturn(c)
    \/ \E c \in Calls : CreateUserProbe(c)
    \/ \E c \in Calls : CreateUserInsert(c)
    \/ \E c \in Calls : CreateUserPublish(c)
    \/ \E c \in Calls : CreateUserReturn(c)
    \/ ValidateToken
    \/ AuthHandler
    \/ Respond
    \/ Tick

Spec == Init /\ [][Next]_vars

-----------------------------------------------------------------------------
(* One CreateUser request, its email drawn from EmailStrings, up to the end *)
(* of its checks of the email.                                              *)

CreateUserAnyEmail ==
    /\ calls[1].op = "idle"
    /\ \E email \in EmailStrings, storeOk \in BOOLEAN :
        LET p == [Email |-> email, Password |-> "pw",
                  FirstName |-> "A", LastName |-> "B"]
            call == [IdleCall EXCEPT !.op = "CreateUser", !.p = p]
        IN  calls' = [calls EXCEPT ![1] = CreateUserCheck(call, storeOk)]
    /\ UNCHANGED <<users, authEvents, now, last>>

SpecEmail == Init /\ [][CreateUserAnyEmail]_vars

-----------------------------------------------------------------------------
(* Vocabulary of the properties *)

Done(c, op) == calls[c].op = op /\ calls[c].pc = "done"

\* The request failed on the infrastructure: the store, the signing or the
\* publish.
InfraFailure(c) == calls[c].cause \in {"store", "sign", "publish"}

\* The request returned a token.
ReturnedToken(c) == calls[c].pc = "done" /\ calls[c].resp.code = "ok"

\* The insert of CreateUser request c added a row.
Inserted(c) ==
    /\ calls[c].op = "CreateUser"
    /\ \/ calls[c].pc \in {"publish", "return"}
       \/ calls[c].pc = "done" /\ calls[c].cause \in {"none", "sign", "publish"}

\* The insert of CreateUser request c ran: its probe had found no row.
RanInsert(c) == Inserted(c) \/ (Done(c, "CreateUser") /\ calls[c].cause = "conflict")

\* Number of AuthEvents request c has published.
EventsBy(c) == Cardinality({i \in DOMAIN authEvents : authEvents[i].by = c})

-----------------------------------------------------------------------------
(* C1 *)

\* C1: two CreateUser requests for the same valid email that no other request
\* registers, neither failing on the infrastructure, end with exactly one
\* token and one AlreadyExists, whatever the interleaving of their probes and
\* inserts.
C1_OneTokenOneAlreadyExists ==
    \A c1 \in Calls, c2 \in Calls :
        ( /\ c1 # c2
          /\ Done(c1, "CreateUser") /\ Done(c2, "CreateUser")
          /\ calls[c1].p.Email = calls[c2].p.Email
          /\ isValidEmail(calls[c1].p.Email)
          /\ ~InfraFailure(c1) /\ ~InfraFailure(c2)
          /\ \A d \in Calls \ {c1, c2} :
                ~(Inserted(d) /\ calls[d].p.Email = calls[c1].p.Email) )
        => \/ calls[c1].resp.code = "ok" /\ calls[c2].resp.code = "already_exists"
           \/ calls[c2].resp.code = "ok" /\ calls[c1].resp.code = "already_exists"

-----------------------------------------------------------------------------
(* C2 *)

\* C2: in every reachable state no two rows of the users table have the same
\* email.
C2_EmailUnique ==
    \A u1 \in users, u2 \in users : u1.email = u2.email => u1 = u2

\* Two requests ran their insert for the same email.
C2_Witness ==
    \E c1 \in Calls, c2 \in Calls :
        /\ c1 # c2
        /\ RanInsert(c1) /\ RanInsert(c2)
        /\ calls[c1].p.Email = calls[c2].p.Email
        /\ Cardinality(users) = 1

-----------------------------------------------------------------------------
(* C3 *)

\* C3: CreateUser answers AlreadyExists when its probe finds the email and
\* when, the probe having found nothing, the store refuses the insert for the
\* uniqueness of the email.
C3_AlreadyExistsBothCases ==
    \A c \in Calls :
        (Done(c, "CreateUser") /\ calls[c].cause \in {"exists", "conflict"})
        => calls[c].resp.code = "already_exists"

-----------------------------------------------------------------------------
(* C4 *)

\* C4: an Auth request for an email that is not stored or with a password that
\* does not match is answered Unauthenticated, without a token, and with the
\* same code and message for the two causes.
C4_UnauthenticatedIndistinguishable ==
    /\ \A c \in Calls :
        (Done(c, "Auth") /\ calls[c].cause \in {"notfound", "mismatch"})
        => /\ calls[c].resp.code = "unauthenticated"
           /\ calls[c].resp.token = NoToken
           /\ calls[c].resp = AuthInvalidCredentials(calls[c].p.Email, "notfound")
           /\ calls[c].resp = AuthInvalidCredentials(calls[c].p.Email, "mismatch")
    /\ \A c1 \in Calls, c2 \in Calls :
        ( /\ Done(c1, "Auth") /\ calls[c1].cause = "notfound"
          /\ Done(c2, "Auth") /\ calls[c2].cause = "mismatch" )
        => /\ calls[c1].resp.code = calls[c2].resp.code
           /\ calls[c1].resp.msg = calls[c2].resp.msg

\* An Auth request met a stored user with another password.
C4_Witness ==
    \E c \in Calls :
        /\ Done(c, "Auth") /\ calls[c].cause = "mismatch"
        /\ \E u \in users : u.email = calls[c].p.Email
        /\ calls[c].resp.code = "unauthenticated"

-----------------------------------------------------------------------------
(* C5 *)

\* A stored user has this email and the digest of this password.
CredentialsMatch(email, password) ==
    \E u \in users : u.email = email /\ u.password = Sha1Hex(password)

\* The token carries this email as its email claim.
CarriesEmail(tok, email) ==
    tok.form = "jwt" /\ tok.emailType = "string" /\ tok.email = email

\* The step in which Auth request c looks the user up: with credentials that
\* match a stored user, and the store and the signing working, a token for
\* the submitted email is issued.
C5_AuthIssues(c) ==
    ( /\ calls[c].op = "idle" /\ calls'[c].op = "Auth"
      /\ CredentialsMatch(calls'[c].p.Email, calls'[c].p.Password)
      /\ calls'[c].cause \notin {"store", "sign"} )
    => /\ calls'[c].pc = "publish"
       /\ CarriesEmail(calls'[c].token, calls'[c].p.Email)

\* The token an Auth request holds or has returned carries the submitted email.
C5_AuthToken ==
    \A c \in Calls :
        /\ (calls[c].op = "Auth" /\ calls[c].pc \in {"publish", "return"})
            => CarriesEmail(calls[c].token, calls[c].p.Email)
        /\ (Done(c, "Auth") /\ calls[c].resp.code = "ok")
            => CarriesEmail(calls[c].resp.token, calls[c].p.Email)
        /\ (Done(c, "Auth") /\ calls[c].cause = "none")
            => calls[c].resp.code = "ok"

\* ValidateToken, on a token that CreateUser or Auth returned for an email and
\* that has not expired, returns that email.
C5_ValidateReturned ==
    \A c \in Calls :
        ( /\ ReturnedToken(c)
          /\ last.op = "ValidateToken"
          /\ last.token = calls[c].resp.token
          /\ now =< last.token.exp )
        => last.vcode = "ok" /\ last.email = calls[c].p.Email

\* C5: Auth with the credentials of a stored user (signing and publish
\* succeeding) returns a token whose email claim is the submitted email, and
\* ValidateToken on a token returned by CreateUser or by Auth returns the
\* email of that request.
C5_TokensCarryEmail ==
    [][ /\ \A c \in Calls : C5_AuthIssues(c)
        /\ C5_AuthToken'
        /\ C5_ValidateReturned' ]_vars

\* CreateUser returned T1, Auth with the same credentials returned T2, and
\* ValidateToken on T2 returned the email; T1 is valid as well.
C5_Witness ==
    \E c1 \in Calls, c2 \in Calls :
        /\ Done(c1, "CreateUser") /\ ReturnedToken(c1)
        /\ Done(c2, "Auth") /\ ReturnedToken(c2)
        /\ calls[c1].p.Email = calls[c2].p.Email
        /\ now =< calls[c1].resp.token.exp
        /\ APIValidateToken(calls[c1].resp.token, now).email = calls[c1].p.Email
        /\ last.op = "ValidateToken"
        /\ last.token = calls[c2].resp.token
        /\ last.vcode = "ok"
        /\ last.email = calls[c2].p.Email

-----------------------------------------------------------------------------
(* C6 *)

-----------------------------------------------------------------------------
(* C7 *)

\* C7: ValidateToken on a token that is malformed or not signed with the key
\* answers Invalid: neither a crash nor InternalError.
C7_MalformedIsInvalid ==
    ( /\ last.op = "ValidateToken"
      /\ (last.token.form # "jwt" \/ last.token.sig # SigningKey) )
    => last.vcode = "invalid"

-----------------------------------------------------------------------------
(* C8 *)

\* C8: ValidateToken on a correctly signed token whose expiry has passed
\* answers Expired, which is neither Invalid nor InternalError.
C8_ExpiredIsExpired ==
    ( /\ last.op = "ValidateToken"
      /\ last.token.form = "jwt" /\ last.token.sig = SigningKey
      /\ now > last.token.exp )
    => last.vcode = "expired"

-----------------------------------------------------------------------------
(* C9 *)

\* The token passes the verification of the signature and of the expiry.
Verifies(tok) == tok.form = "jwt" /\ tok.sig = SigningKey /\ now =< tok.exp

\* C9: AuthHandler refuses the empty token as Unauthenticated without calling
\* ValidateToken; for another token it calls ValidateToken, answers
\* Unauthenticated whenever the verification fails, and on a verified token
\* returns an identifier and the email the token carries.
C9_AuthHandler ==
    last.op = "AuthHandler" =>
        /\ last.token = NoToken
            => last.hcode = "unauthenticated" /\ ~last.verified
        /\ last.token # NoToken => last.verified
        /\ (last.token # NoToken /\ ~Verifies(last.token))
            => last.hcode = "unauthenticated" /\ last.uid = ""
        /\ (Verifies(last.token) /\ last.token.emailType = "string")
            => /\ last.hcode = "ok"
               /\ last.uid \in UIDs
               /\ last.email = last.token.email

\* The handler resolved a token that the service had returned.
C9_Witness ==
    /\ last.op = "AuthHandler"
    /\ last.token \in IssuedTokens
    /\ last.hcode = "ok"
    /\ last.uid \in UIDs
    /\ isValidEmail(last.email)

-----------------------------------------------------------------------------
(* C10 *)

\* C10: a request that returns a token has published exactly one AuthEvent,
\* with its email, and has done so before it returns; a request that returns
\* Unauthenticated, InvalidArgument or AlreadyExists has published none.
C10_OneEventPerToken ==
    \A c \in Calls :
        /\ (ReturnedToken(c) \/ calls[c].pc = "return")
            => /\ EventsBy(c) = 1
               /\ \A i \in DOMAIN authEvents :
                    authEvents[i].by = c => authEvents[i].UserEmail = calls[c].p.Email
        /\ (calls[c].pc = "done" /\ calls[c].resp.code \in
                {"unauthenticated", "invalid_argument", "already_exists"})
            => EventsBy(c) = 0

\* One request returned a token, another was refused.
C10_Witness ==
    \E c \in Calls, d \in Calls :
        /\ ReturnedToken(c) /\ EventsBy(c) = 1
        /\ calls[d].pc = "done" /\ calls[d].resp.code = "unauthenticated"
        /\ EventsBy(d) = 0
        /\ Len(authEvents) = 1

-----------------------------------------------------------------------------
(* C11 *)

\* C11: an Auth request whose publish fails, after the credentials were
\* accepted and the token was made, is answered InternalError and returns no
\* token.
C11_PublishFailureIsInternal ==
    \A c \in Calls :
        (Done(c, "Auth") /\ calls[c].cause = "publish")
        => /\ calls[c].resp.code = "internal"
           /\ calls[c].resp.token = NoToken
           /\ calls[c].token = NoToken

\* The publish of an Auth request with the credentials of a stored user failed.
C11_Witness ==
    \E c \in Calls :
        /\ Done(c, "Auth") /\ calls[c].cause = "publish"
        /\ CredentialsMatch(calls[c].p.Email, calls[c].p.Password)
        /\ EventsBy(c) = 0
        /\ calls[c].resp.code = "internal"

-----------------------------------------------------------------------------
(* C12 *)

\* The step in which ValidateToken answers: it changes nothing but the
\* answer, and when it returns an email, a second call on the same token at
\* any time up to the expiry of the token returns the same.
C12_ValidateTokenStep ==
    (last.op = "none" /\ last'.op = "ValidateToken")
    => /\ UNCHANGED <<users, authEvents, now, calls>>
       /\ (last'.vcode = "ok" /\ now =< last'.token.exp)
            => \A t \in now..last'.token.exp :
                APIValidateToken(last'.token, t) =
                    [code |-> "ok", msg |-> last'.vmsg, email |-> last'.email]

-----------------------------------------------------------------------------
(* C13 *)

Min(S) == CHOOSE x \in S : \A y \in S : x =< y

Max(S) == CHOOSE x \in S : \A y \in S : y =< x

\* The email is a local part, "@", a domain, "." and a top-level label of at
\* least 2 letters: the local part is what precedes the first "@", the label
\* what follows the last "."; neither the local part nor the domain is empty.
HasEmailForm(email) ==
    LET n == Len(email)
        ats == {i \in 1..n : email[i] = "@"}
        dots == {j \in 1..n : email[j] = "."}
    IN  /\ ats # {}
        /\ {j \in dots : j > Min(ats)} # {}
        /\ LET at == Min(ats)
               dot == Max({j \in dots : j > at})
           IN  /\ at > 1
               /\ \A k \in 1..(at - 1) : email[k] \in LocalChar
               /\ dot > at + 1
               /\ \A k \in (at + 1)..(dot - 1) : email[k] \in DomainChar
               /\ n - dot >= 2
               /\ \A k \in (dot + 1)..n : email[k] \in Letter

\* C13: CreateUser accepts an email exactly when it is a local part, "@", a
\* domain and a top-level label of at least 2 characters, and answers
\* InvalidArgument to every other; "a@b.co" is accepted, "abc", "a@b" and
\* "@b.com" are refused.
C13_EmailFormat ==
    /\ \A c \in Calls :
        calls[c].op = "CreateUser"
        => (calls[c].resp.code = "invalid_argument"
                <=> ~HasEmailForm(calls[c].p.Email))
    /\ isValidEmail(EmailABCo)
    /\ ~isValidEmail(EmailAbc)
    /\ ~isValidEmail(EmailAB)
    /\ ~isValidEmail(EmailAtBCom)

\* An email drawn character by character passed the check of its format.
C13_Witness ==
    /\ calls[1].op = "CreateUser"
    /\ calls[1].pc = "insert"
    /\ calls[1].p.Email \notin {EmailABCo, EmailUXCom}
    /\ Len(calls[1].p.Email) = 6

-----------------------------------------------------------------------------
(* C14 *)

\* C14: ValidateToken of a correctly signed, unexpired token whose email claim
\* is absent or is no string ends with a typed error: it neither aborts the
\* request nor succeeds.
C14_TypedErrorOnBadClaim ==
    ( /\ last.op = "ValidateToken"
      /\ Verifies(last.token)
      /\ last.token.emailType # "string" )
    => last.vcode \notin {"panic", "ok", "none"}

-----------------------------------------------------------------------------
(* C15 *)

\* C15: an Auth or CreateUser request that ended on a failure of the store (an
\* error of a query, not an empty result nor a password mismatch) is answered
\* InternalError.
C15_StoreFailureIsInternal ==
    \A c \in Calls :
        ( /\ calls[c].op \in {"Auth", "CreateUser"}
          /\ calls[c].pc = "done"
          /\ calls[c].cause = "store" )
        => calls[c].resp.code = "internal"

-----------------------------------------------------------------------------
(* C16 *)

\* C16: a CreateUser request answered InternalError has added no row: when no
\* other request inserted its email, the store holds no user of that email.
C16_InternalLeavesNoRow ==
    \A c \in Calls :
        ( /\ Done(c, "CreateUser")
          /\ calls[c].resp.code = "internal"
          /\ \A d \in Calls \ {c} :
                ~(Inserted(d) /\ calls[d].p.Email = calls[c].p.Email) )
        => ~(\E u \in users : u.email = calls[c].p.Email)

-----------------------------------------------------------------------------
(* C17 *)

C17_UsersStep ==
    /\ users \subseteq users'
    /\ (\E c \in Calls : calls'[c] # calls[c] /\ calls'[c].op = "Auth")
        => users' = users
    /\ last' # last => users' = users
    /\ users' # users
        => \E c \in Calls :
            /\ calls[c].op = "CreateUser" /\ calls[c].pc = "insert"
            /\ calls'[c] # calls[c]
            /\ \E row \in users' \ users :
                /\ users' = users \cup {row}
                /\ row.email = calls[c].p.Email
                /\ \A u \in users : u.id # row.id /\ u.email # row.email

\* C17: every stored user stays in the store as it is; Auth, ValidateToken
\* and AuthHandler leave the store unchanged, and the only change is the
\* insert of a CreateUser request, which adds one row of a new id and email.
C17_UsersOnlyAdded == [][C17_UsersStep]_vars

\* A CreateUser request ran into the row another request had stored, and a
\* token is being validated while that row is in the store.
C17_Witness ==
    /\ \E c \in Calls :
        /\ Done(c, "CreateUser")
        /\ calls[c].cause \in {"conflict", "exists"}
        /\ \E u \in users : u.email = calls[c].p.Email
    /\ last.op \in {"ValidateToken", "AuthHandler"}

-----------------------------------------------------------------------------
(* C18 *)

\* C18: an Auth or CreateUser request that returned a token returned it for
\* the email of its parameters, and a user of that email is in the store.
C18_TokenOnlyForStoredUser ==
    \A c \in Calls :
        ReturnedToken(c)
        => /\ calls[c].op \in {"Auth", "CreateUser"}
           /\ calls[c].resp.token.email = calls[c].p.Email
           /\ \E u \in users : u.email = calls[c].p.Email

\* CreateUser returned a token for the user it stored, and Auth one for a
\* stored user.
C18_Witness ==
    \E c \in Calls, d \in Calls :
        /\ Done(c, "CreateUser") /\ ReturnedToken(c)
        /\ Done(d, "Auth") /\ ReturnedToken(d)
        /\ \E u \in users : u.email = calls[d].p.Email
        /\ Cardinality(users) = 1

-----------------------------------------------------------------------------
(* C19 *)

C19_InvalidEmailStep ==
    \A c \in Calls :
        /\ ( /\ calls[c].op = "idle"
             /\ calls'[c].op = "CreateUser"
             /\ ~isValidEmail(calls'[c].p.Email) )
            => /\ calls'[c].pc = "done"
               /\ calls'[c].resp.code = "invalid_argument"
               /\ calls'[c].cause = "format"
               /\ users' = users
               /\ authEvents' = authEvents
        /\ ( /\ calls'[c].op = "CreateUser"
             /\ calls'[c].pc = "done"
             /\ calls'[c].resp.code = "invalid_argument" )
            => /\ calls[c].op = "idle" \/ calls[c] = calls'[c]
               /\ ~isValidEmail(calls'[c].p.Email)
               /\ calls'[c].resp.token = NoToken
               /\ calls'[c].token = NoToken
               /\ (EventsBy(c))' = 0
               /\ ~(\E u \in users' : u.email = calls'[c].p.Email)

\* C19: a CreateUser request of a malformed email is answered InvalidArgument
\* in its first step, whatever the state of the store: it makes no probe and
\* no insert, issues no token, publishes no event and leaves the store as it
\* was; and no other CreateUser request is answered InvalidArgument.
C19_FormatCheckedFirst == [][C19_InvalidEmailStep]_vars

\* A malformed email was refused while the store held a user and an event
\* had been published.
C19_Witness ==
    \E c \in Calls :
        /\ Done(c, "CreateUser")
        /\ calls[c].resp.code = "invalid_argument"
        /\ ~isValidEmail(calls[c].p.Email)
        /\ users # {}
        /\ authEvents # <<>>

=============================================================================
